---- MODULE Spec2Model ----
(***************************************************************************)
(* Model of the capability-based competitor discovery and keyword-mapping  *)
(* pipeline of the SEO agent backend:                                      *)
(*   backend/llm_client.py            AzureOpenAIClient                    *)
(*   agents/competitor_agent.py       CompetitorFetchingAgent              *)
(*   agents/competitive_analysis_agent.py  CompetitiveAnalysisAgent        *)
(*   crew.py                          SEOAgentCrew                         *)
(*                                                                         *)
(* Texts are sequences of one-character strings, so that lower(), strip()  *)
(* and the substring test of the code are computed, not assumed.  A step   *)
(* of the model is what a coroutine does between two suspension points     *)
(* (a page fetch or an oracle call).                                       *)
(***************************************************************************)
EXTENDS Integers, Sequences, FiniteSets, TLC

(***************************************************************************)
(* Bounds of the model.                                                    *)
(***************************************************************************)
\* longest article keyword list handed to get_competitor_keywords (MapSpec)
MaxArticleKw == 2
\* competitors of the product that are configured (a prefix of the list)
NumCompetitors == 2

(***************************************************************************)
(* Python values.                                                          *)
(***************************************************************************)
\* None / absent key of a text-valued field; no text has a 4-character element
None == <<"None">>
\* None / absent key of a numeric field
NoVolume == -1
\* a field holding a JSON string where a number is expected ("high")
TextVolume == -2

Min(a, b) == IF a <= b THEN a ELSE b

\* Python truthiness of a text value: neither None nor ""
TruthyText(t) == t # None /\ t # <<>>
\* Python truthiness of a numeric value: neither None nor 0
TruthyNum(v) == v # NoVolume /\ v # 0
\* Python `a or b` on numeric values
OrNum(a, b) == IF TruthyNum(a) THEN a ELSE b

(***************************************************************************)
(* str.lower(), str.strip() and the `in` substring test.                   *)
(***************************************************************************)
UpperChars == <<"A","B","C","D","E","F","G","H","I","J","K","L","M",
                "N","O","P","Q","R","S","T","U","V","W","X","Y","Z">>
LowerChars == <<"a","b","c","d","e","f","g","h","i","j","k","l","m",
                "n","o","p","q","r","s","t","u","v","w","x","y","z">>
Whitespace == {" ", "\t", "\n"}

LowerTable ==
    [c \in {UpperChars[i] : i \in 1..26} |->
        LowerChars[CHOOSE i \in 1..26 : UpperChars[i] = c]]

LowerChar(c) == IF c \in DOMAIN LowerTable THEN LowerTable[c] ELSE c

Lower(s) == [i \in 1..Len(s) |-> LowerChar(s[i])]

RECURSIVE LStrip(_)
LStrip(s) == IF s # <<>> /\ Head(s) \in Whitespace THEN LStrip(Tail(s)) ELSE s

RECURSIVE RStrip(_)
RStrip(s) ==
    IF s # <<>> /\ s[Len(s)] \in Whitespace
    THEN RStrip(SubSeq(s, 1, Len(s) - 1))
    ELSE s

Strip(s) == RStrip(LStrip(s))

\* Python `sub in s`
Contains(sub, s) ==
    \E i \in 0..(Len(s) - Len(sub)) : SubSeq(s, i + 1, i + Len(sub)) = sub

(***************************************************************************)
(* EXCLUDED_PRODUCT_TERMS and _is_excluded_keyword.                        *)
(***************************************************************************)
EXCLUDED_PRODUCT_TERMS == <<
    <<"a","d","a","p","t","i","v","e"," ","f","o","r","m">>,
    <<"a","d","a","p","t","i","v","e"," ","f","o","r","m","s">>,
    <<"a","e","m"," ","s","i","t","e","s">>,
    <<"a","e","m"," ","s","i","t","e">>,
    <<"a","e","m"," ","f","o","r","m","s">>,
    <<"a","e","m"," ","f","o","r","m">>,
    <<"a","e","m"," ","a","s"," ","a"," ","c","l","o","u","d"," ","s","e","r","v","i","c","e">>,
    <<"a","e","m"," ","c","l","o","u","d"," ","s","e","r","v","i","c","e">>,
    <<"a","e","m"," ","a","s","s","e","t","s">>,
    <<"a","e","m"," ","a","s","s","e","t">>,
    <<"a","d","o","b","e"," ","e","x","p","e","r","i","e","n","c","e"," ","m","a","n","a","g","e","r">>,
    <<"e","x","p","e","r","i","e","n","c","e"," ","m","a","n","a","g","e","r">>,
    <<"a","e","m">> >>

is_excluded_keyword(keyword) ==
    \E keyword_lower \in {Strip(Lower(keyword))} :
        \E k \in 1..Len(EXCLUDED_PRODUCT_TERMS) :
            Contains(EXCLUDED_PRODUCT_TERMS[k], keyword_lower)

(***************************************************************************)
(* Configuration: PRODUCT_COMPETITORS["Forms"], cut to NumCompetitors.     *)
(***************************************************************************)
\* a URL is its host and its path; the scheme is https throughout
Url(host, path) == [host |-> host, path |-> path]

FormsCompetitors == <<
    [name |-> "Typeform",  url |-> Url("www.typeform.com", "/")],
    [name |-> "Jotform",   url |-> Url("www.jotform.com", "/")],
    [name |-> "Formstack", url |-> Url("www.formstack.com", "/")],
    [name |-> "Wufoo",     url |-> Url("www.wufoo.com", "/")] >>

Products == {"Forms", "Widgets"}

\* PRODUCT_COMPETITORS.get(product): the empty list stands for None
PRODUCT_COMPETITORS(p) ==
    IF p = "Forms"
    THEN SubSeq(FormsCompetitors, 1, Min(NumCompetitors, Len(FormsCompetitors)))
    ELSE <<>>

(***************************************************************************)
(* _get_volume_field_name.                                                 *)
(***************************************************************************)
TimeRanges == {"week", "month", "year", "quarter"}
ValidTimeRange(t) == t \in {"week", "year", "month"}
volume_field_name(t) ==
    CASE t = "week"  -> "weekly_volume"
      [] t = "year"  -> "yearly_volume"
      [] t = "month" -> "monthly_volume"

Prefix(s, n) == SubSeq(s, 1, Min(n, Len(s)))

\* dict.get(key, default) of a text field whose key may be absent
TextOr(t, d) == IF t = None THEN d ELSE t

\* list.sort compares keys with `<`: a string key and a numeric key in one
\* list raise TypeError; keys of one type are ordered
SortRaises(keys) ==
    /\ \E i \in 1..Len(keys) : keys[i] = TextVolume
    /\ \E i \in 1..Len(keys) : keys[i] # TextVolume

\* a descending sort that reverses the elements of equal key
SortDescTiesReversed(s, keys) ==
    LET rank(i) == 1 + Cardinality({j \in 1..Len(s) :
                         keys[j] > keys[i] \/ (keys[j] = keys[i] /\ j > i)})
    IN  [r \in 1..Len(s) |-> s[CHOOSE i \in 1..Len(s) : rank(i) = r]]

\* list.sort(key=..., reverse=True): stable, elements of equal key keep
\* their order.  keys[i] is the key of s[i].
StableSortDesc(s, keys) ==
    LET rank(i) == 1 + Cardinality({j \in 1..Len(s) :
                         keys[j] > keys[i] \/ (keys[j] = keys[i] /\ j < i)})
    IN  [r \in 1..Len(s) |-> s[CHOOSE i \in 1..Len(s) : rank(i) = r]]

(***************************************************************************)
(* get_competitor_keywords: the keyword mapper and the suggestion ranker.  *)
(* A keyword dict is modelled by the fields the control flow reads:        *)
(* keyword, search_volume, used_by, competitor.  cpc, difficulty and      *)
(* relevance_score are defaulted like the volume (lines 513-515) and then, *)
(* with tool, source and semrush_url, copied from dict to dict.            *)
(***************************************************************************)
\* article keywords mapped and competitor contents queried per call
MapKeywordCap == 5
MapCompetitorCap == 2
\* default search volume of an accepted answer without a volume
DefaultVolume == 500
\* default relevance_score of an accepted answer without one
DefaultRelevance == 7
\* length of suggested_keywords at which the ranking loop stops
SuggestCap == 5

RECURSIVE KeywordsOf(_)
KeywordsOf(akws) ==
    IF akws = <<>> THEN <<>>
    ELSE (IF TruthyText(Head(akws).keyword) THEN <<Head(akws).keyword>> ELSE <<>>)
         \o KeywordsOf(Tail(akws))

\* every keyword of the input is mapped
article_kw_list_uncut(akws) == KeywordsOf(akws)
article_kw_list(akws) == Prefix(KeywordsOf(akws), MapKeywordCap)

\* the first input dict whose keyword equals article_kw ignoring case
article_kw_data(akws, article_kw) ==
    LET hits == {i \in 1..Len(akws) :
                    Lower(TextOr(akws[i].keyword, <<>>)) = Lower(article_kw)}
    IN  IF hits = {} THEN [keyword |-> None, search_volume |-> 0]
        ELSE akws[CHOOSE i \in hits : \A j \in hits : i <= j]

\* lines 506-525: what one oracle answer adds to competitor_terms_for_keyword
AcceptTerm(answer, comp_name, volume_field) ==
    IF answer.kind # "object" \/ ~answer.has_competitor_keyword THEN <<>>
    ELSE LET ckw      == answer.competitor_keyword
             ckw_text == TextOr(ckw.keyword, <<>>)
         IN  IF TruthyText(ckw_text) /\ ~is_excluded_keyword(ckw_text)
             THEN << [keyword       |-> ckw_text,
                      competitor    |-> comp_name,
                      search_volume |-> OrNum(OrNum(ckw[volume_field],
                                                    ckw["monthly_volume"]),
                                              DefaultVolume),
                      relevance_score |-> OrNum(ckw.relevance_score,
                                                DefaultRelevance)] >>
             ELSE <<>>

\* the TypeError of a sort (lines 535, 618) leaves get_competitor_keywords
SortError == "TypeError"

\* line 535
SortTermsUnsorted(terms) == terms
SortTerms(terms) ==
    StableSortDesc(terms, [i \in 1..Len(terms) |-> terms[i].search_volume])

\* line 542: two competitor terms are the same keyword
SameTermExact(a, b) == a = b
SameTerm(a, b) == Strip(Lower(a)) = Strip(Lower(b))

\* lines 539-560: one term merged into competitor_keywords_all
MergeTerm(all, term) ==
    LET hits == {i \in 1..Len(all) : SameTerm(all[i].keyword, term.keyword)}
    IN  IF hits # {}
        THEN LET e == CHOOSE i \in hits : \A j \in hits : i <= j
             IN  IF \E u \in 1..Len(all[e].used_by) :
                        all[e].used_by[u] = term.competitor
                 THEN all
                 ELSE [all EXCEPT ![e].used_by = Append(@, term.competitor)]
        ELSE Append(all, [keyword       |-> term.keyword,
                          search_volume |-> term.search_volume,
                          used_by       |-> <<term.competitor>>])

RECURSIVE MergeTerms(_, _)
MergeTerms(all, terms) ==
    IF terms = <<>> THEN all
    ELSE MergeTerms(MergeTerm(all, Head(terms)), Tail(terms))

\* lines 532-569: the end of one article keyword's round
EndRound(akws, article_kw, st) ==
    IF st.terms = <<>>
    THEN [st EXCEPT !.ki = @ + 1, !.ci = 1]
    ELSE IF SortRaises([i \in 1..Len(st.terms) |-> st.terms[i].search_volume])
    THEN [st EXCEPT !.pc = "failed", !.error = SortError]
    ELSE LET sorted == SortTerms(st.terms)
             data   == article_kw_data(akws, article_kw)
         IN  [st EXCEPT
                 !.ki    = @ + 1,
                 !.ci    = 1,
                 !.terms = <<>>,
                 !.all   = MergeTerms(@, sorted),
                 !.maps  = Append(@,
                     [article_keyword     |-> [keyword       |-> article_kw,
                                               search_volume |-> data.search_volume],
                      competitor_keywords |-> sorted])]

\* lines 475-530 up to the next oracle call, or to the end of the loops
RECURSIVE RunLoops(_, _, _, _)
RunLoops(akws, kwl, content, st) ==
    IF st.pc = "failed" THEN st
    ELSE IF st.ki > Len(kwl) THEN [st EXCEPT !.pc = "rank"]
    ELSE IF st.ci > Len(content)
         THEN RunLoops(akws, kwl, content, EndRound(akws, kwl[st.ki], st))
    ELSE IF content[st.ci].content = <<>>
         THEN RunLoops(akws, kwl, content, [st EXCEPT !.ci = @ + 1])
    ELSE [st EXCEPT !.pc = "map"]

\* the ranking starts while mapping calls are still to be made
RunMapperRanksAtOnce(akws, content, st) == [st EXCEPT !.pc = "rank"]
RunMapper(akws, content, st) == RunLoops(akws, article_kw_list(akws), content, st)

\* lines 583-595
RECURSIVE CleanKeywords(_)
CleanKeywords(akws) ==
    IF akws = <<>> THEN <<>>
    ELSE LET akw == Head(akws)
         IN  (IF TruthyText(akw.keyword)
                 /\ ~is_excluded_keyword(TextOr(akw.keyword, <<>>))
              THEN << [keyword       |-> akw.keyword,
                       search_volume |-> akw.search_volume] >>
              ELSE <<>>)
             \o CleanKeywords(Tail(akws))

article_keywords_clean(akws) == CleanKeywords(Prefix(akws, 5))

\* lines 597-615
RECURSIVE WithVolume(_)
WithVolume(kws) ==
    IF kws = <<>> THEN <<>>
    ELSE (IF Head(kws).search_volume # NoVolume THEN <<Head(kws)>> ELSE <<>>)
         \o WithVolume(Tail(kws))

all_keywords_for_suggestion(clean, all) ==
    WithVolume([i \in 1..Len(clean) |->
                   [keyword       |-> clean[i].keyword,
                    search_volume |-> clean[i].search_volume,
                    used_by       |-> <<>>]])
    \o WithVolume(all)

\* lines 618-621
SortSuggestionsUnsorted(pool) == pool
SortSuggestions(pool) ==
    StableSortDesc(pool, [i \in 1..Len(pool) |-> OrNum(pool[i].search_volume, 0)])

\* line 626: the text under which a suggestion is remembered as seen
SeenKeyExact(kw) == TextOr(kw.keyword, <<>>)
SeenKey(kw) == Lower(TextOr(kw.keyword, <<>>))

\* line 640
SuggestLimitNever(suggested) == FALSE
SuggestLimitReached(suggested) == Len(suggested) >= SuggestCap

\* lines 623-641
RECURSIVE SuggestLoop(_, _, _)
SuggestLoop(pool, seen_keywords, suggested) ==
    IF pool = <<>> THEN suggested
    ELSE LET kw           == Head(pool)
             keyword_text == SeenKey(kw)
             add          == keyword_text # <<>> /\ keyword_text \notin seen_keywords
             suggested2   == IF add THEN Append(suggested, kw) ELSE suggested
             seen2        == IF add THEN seen_keywords \cup {keyword_text}
                                    ELSE seen_keywords
         IN  IF SuggestLimitReached(suggested2) THEN suggested2
             ELSE SuggestLoop(Tail(pool), seen2, suggested2)

\* line 618 raises: the pool holds a string volume and a numeric one
RankRaises(akws, all) ==
    LET pool == all_keywords_for_suggestion(article_keywords_clean(akws), all)
    IN  SortRaises([i \in 1..Len(pool) |-> OrNum(pool[i].search_volume, 0)])

\* lines 583-658: the returned dict
MapperResult(akws, all, maps) ==
    LET clean == article_keywords_clean(akws)
    IN  [article_keywords    |-> clean,
         competitor_keywords |-> all,
         suggested_keywords  |->
             SuggestLoop(SortSuggestions(all_keywords_for_suggestion(clean, all)),
                         {}, <<>>),
         keyword_mappings    |-> maps]

NoResult ==
    [article_keywords |-> <<>>, competitor_keywords |-> <<>>,
     suggested_keywords |-> <<>>, keyword_mappings |-> <<>>]

\* lines 443-460, then the loops up to the first oracle call
MapperFailed(msg) ==
    [pc |-> "failed", ki |-> 1, ci |-> 1, terms |-> <<>>, all |-> <<>>,
     maps |-> <<>>, error |-> msg]

EnterMapper(p, akws, tr, content) ==
    IF PRODUCT_COMPETITORS(p) = <<>>
        THEN MapperFailed("No competitors configured for product")
    ELSE IF KeywordsOf(akws) = <<>>
        THEN MapperFailed("No article keywords provided for competitor analysis")
    ELSE IF ~ValidTimeRange(tr)
        THEN MapperFailed("Invalid time_range")
    ELSE IF content = <<>>
        THEN MapperFailed("No competitor content provided")
    ELSE RunMapper(akws, Prefix(content, MapCompetitorCap),
                   [pc |-> "map", ki |-> 1, ci |-> 1, terms |-> <<>>,
                    all |-> <<>>, maps |-> <<>>, error |-> ""])

\* a stretch of page text inside a content string: where it came from and
\* how many characters of body text it holds
Segment(url, body) == [url |-> url, body |-> body]

(***************************************************************************)
(* CompetitorAgent: pages, discovery of help URLs, extraction.             *)
(* A page is the length of its HTML, the length of the body text that      *)
(* _extract_content would clean out of it, and its help anchors.  A failed *)
(* fetch is the page of HTML length 0 (_fetch_page returns "").            *)
(***************************************************************************)
MinHtml       == 500      \* line 424
MinContent    == 200      \* lines 427, 562, 592
ExtractKeep   == 8000     \* line 236
CandidateCap  == 5        \* line 419
CandidateKeep == 4000     \* line 430
BaseKeep      == 5000     \* line 453
FallbackKeep  == 6000     \* lines 570, 599
DiscoverCap   == 10       \* line 153

Page(html, body, anchors) == [html |-> html, body |-> body, anchors |-> anchors]

\* _extract_content(html, url).get('content'): the length of the kept text
extract_content(page) == IF page.html = 0 THEN 0 ELSE Min(page.body, ExtractKeep)

CommonPaths == <<
    "/help", "/help/", "/support", "/support/", "/docs", "/docs/",
    "/documentation", "/blog", "/blog/", "/features", "/features/",
    "/product", "/products", "/resources", "/resources/", "/learn",
    "/guides", "/faq", "/knowledge-base", "/articles" >>

\* order-preserving removal of duplicates
RECURSIVE DedupeFrom(_, _)
DedupeFrom(s, seen) ==
    IF s = <<>> THEN <<>>
    ELSE IF Head(s) \in seen THEN DedupeFrom(Tail(s), seen)
    ELSE <<Head(s)>> \o DedupeFrom(Tail(s), seen \cup {Head(s)})

\* every URL is kept, repeated or not
DedupeNothing(s) == s
Dedupe(s) == DedupeFrom(s, {})

\* an anchor of a page: the URL its href normalises to, whether its text or
\* href holds a help keyword, and whether the href is relative or absolute
\* (any other href is skipped)
Anchor(url, help, form) == [url |-> url, help |-> help, form |-> form]

\* hosts whose URL holds "help." or "support."
HelpHosts == {"help.zendesk.com", "support.google.com"}

RECURSIVE HelpLinks(_, _)
HelpLinks(base_url, anchors) ==
    IF anchors = <<>> THEN <<>>
    ELSE LET a == Head(anchors)
         IN  (IF a.help /\ a.form \in {"relative", "absolute"}
                 /\ (a.url.host = base_url.host \/ a.url.host \in HelpHosts)
              THEN <<a.url>> ELSE <<>>)
             \o HelpLinks(base_url, Tail(anchors))

\* discover_help_urls(base_url, main_page_html): the common paths come first
discover_help_urls(base_url, page) ==
    LET common == [k \in 1..Len(CommonPaths) |-> Url(base_url.host, CommonPaths[k])]
    IN  Prefix(Dedupe(common \o HelpLinks(base_url, page.anchors)), DiscoverCap)

(***************************************************************************)
(* get_competitor_content_for_capability and                               *)
(* scrape_capability_specific_urls as functions on the scraper's state sc: *)
(* each runs the code from one await to the next one.                      *)
(***************************************************************************)
NoScrapeResult == [urls_tried |-> <<>>, urls_successful |-> <<>>,
                   content_extracted |-> <<>>]

\* the scraper's locals when get_competitor_content_for_capability is entered
ScraperStart ==
    [pc |-> "homepage", idx |-> 1, competitor_content |-> <<>>,
     fallback_content |-> 0, discovered_help_urls |-> <<>>,
     unique_urls |-> <<>>, url_i |-> 1, scrape_result |-> NoScrapeResult,
     error |-> ""]

\* lines 584-610: after the primary pass
EndPrimaryPassGivesUp(sc) ==
    IF sc.competitor_content = <<>>
    THEN [sc EXCEPT !.pc = "failed",
                    !.error = "Failed to scrape any competitor content"]
    ELSE [sc EXCEPT !.pc = "scraped"]
EndPrimaryPass(sc) ==
    IF sc.competitor_content = <<>>
    THEN [sc EXCEPT !.pc = "fallback", !.idx = 1]
    ELSE [sc EXCEPT !.pc = "scraped"]

\* the for loop of line 489 moves to the next competitor
NextCompetitor(comps, sc) ==
    IF sc.idx < Len(comps)
    THEN [sc EXCEPT !.pc = "homepage", !.idx = @ + 1]
    ELSE EndPrimaryPass(sc)

\* line 562
UsableFallbackAtLeast(fallback_content) == fallback_content >= MinContent
UsableFallbackNever(fallback_content) == FALSE
UsableFallback(fallback_content) == fallback_content > MinContent

\* lines 563-574
FallbackEntry(comp, content) ==
    [competitor_name |-> comp.name,
     urls_scraped    |-> <<comp.url>>,
     content         |-> <<Segment(comp.url, Min(content, FallbackKeep))>>,
     pages_scraped   |-> 1]

\* lines 561-577
TryFallback(comps, sc) ==
    NextCompetitor(comps,
        IF UsableFallback(sc.fallback_content)
        THEN [sc EXCEPT !.competitor_content =
                 Append(@, FallbackEntry(comps[sc.idx], sc.fallback_content))]
        ELSE sc)

\* lines 543-553; the cut of line 550 keeps all of content_extracted, which
\* holds at most CandidateCap stretches of the short pages of the model
ScrapedEntry(comp, scrape_result) ==
    [competitor_name |-> comp.name,
     urls_scraped    |-> scrape_result.urls_successful,
     content         |-> scrape_result.content_extracted,
     pages_scraped   |-> Len(scrape_result.urls_successful)]

\* line 556 missing: after the entry of the scraped pages the homepage
\* fallback of lines 561-577 runs too
AfterScrapeFallsThrough(comps, sc) ==
    TryFallback(comps,
        IF sc.scrape_result.content_extracted # <<>>
        THEN [sc EXCEPT !.competitor_content =
                 Append(@, ScrapedEntry(comps[sc.idx], sc.scrape_result))]
        ELSE sc)

\* lines 542-556: scrape_capability_specific_urls returned
AfterScrape(comps, sc) ==
    IF sc.scrape_result.content_extracted # <<>>
    THEN NextCompetitor(comps,
             [sc EXCEPT !.competitor_content =
                 Append(@, ScrapedEntry(comps[sc.idx], sc.scrape_result))])
    ELSE TryFallback(comps, sc)

\* the loop of line 419 ends at the first successful candidate
NextCandidateStopsAtSuccess(comps, sc) ==
    IF sc.url_i <= Min(CandidateCap, Len(sc.unique_urls))
       /\ sc.scrape_result.urls_successful = <<>>
    THEN [sc EXCEPT !.pc = "candidate"]
    ELSE IF sc.scrape_result.urls_successful = <<>>
    THEN [sc EXCEPT !.pc = "base"]
    ELSE AfterScrape(comps, sc)

\* the loop of line 419 takes a sixth candidate
NextCandidateSixth(comps, sc) ==
    IF sc.url_i <= Min(CandidateCap + 1, Len(sc.unique_urls))
    THEN [sc EXCEPT !.pc = "candidate"]
    ELSE IF sc.scrape_result.urls_successful = <<>>
    THEN [sc EXCEPT !.pc = "base"]
    ELSE AfterScrape(comps, sc)

\* lines 419 and 445-447: the next candidate, the base URL, or the return
NextCandidate(comps, sc) ==
    IF sc.url_i <= Min(CandidateCap, Len(sc.unique_urls))
    THEN [sc EXCEPT !.pc = "candidate"]
    ELSE IF sc.scrape_result.urls_successful = <<>>
    THEN [sc EXCEPT !.pc = "base"]
    ELSE AfterScrape(comps, sc)

\* lines 495-502: the homepage fetch of the competitor returned `page`
HomepageFetched(comp, sc, page) ==
    [sc EXCEPT !.pc = "guess",
               !.fallback_content = extract_content(page),
               !.discovered_help_urls =
                   IF page.html # 0 THEN discover_help_urls(comp.url, page)
                   ELSE <<>>]

\* lines 505-559: find_competitor_capability_urls returned or raised
GuessAnswered(comps, sc, answer) ==
    IF answer.kind = "object" /\ answer.truthy
    THEN NextCandidate(comps,
             [sc EXCEPT !.unique_urls =
                            Dedupe(answer.probable_urls \o sc.discovered_help_urls),
                        !.url_i = 1,
                        !.scrape_result = NoScrapeResult])
    ELSE TryFallback(comps, sc)

\* lines 420-438: what the loop records for a fetched candidate page
CandidateStatus(page) ==
    IF page.html # 0 /\ page.html > MinHtml
    THEN IF extract_content(page) # 0 /\ extract_content(page) > MinContent
         THEN "success" ELSE "no_content"
    ELSE "empty"

\* lines 419-443: the fetch of candidate url_i returned `page`
CandidateFetched(comps, sc, page) ==
    LET url     == sc.unique_urls[sc.url_i]
        status  == CandidateStatus(page)
        r       == sc.scrape_result
        tried   == [r EXCEPT !.urls_tried = Append(@, [url |-> url, status |-> status])]
        scraped == IF status = "success"
                   THEN [tried EXCEPT
                            !.urls_successful = Append(@, url),
                            !.content_extracted = Append(@,
                                Segment(url, Min(extract_content(page), CandidateKeep)))]
                   ELSE tried
    IN  NextCandidate(comps, [sc EXCEPT !.scrape_result = scraped, !.url_i = @ + 1])

\* lines 448-456: the fetch of the competitor's base URL returned `page`
BaseFetched(comps, sc, page) ==
    LET base == comps[sc.idx].url
        r    == sc.scrape_result
    IN  AfterScrape(comps,
            IF page.html # 0 /\ extract_content(page) # 0
            THEN [sc EXCEPT !.scrape_result =
                     [r EXCEPT !.urls_successful = Append(@, base),
                               !.content_extracted =
                                   <<Segment(base, Min(extract_content(page), BaseKeep))>>]]
            ELSE sc)

\* lines 590-592
UsableHomepage(page) ==
    page.html # 0 /\ extract_content(page) # 0 /\ extract_content(page) > MinContent

\* lines 587-610: the homepage fetch of the fallback pass returned `page`
FallbackFetched(comps, sc, page) ==
    LET added == IF UsableHomepage(page)
                 THEN Append(sc.competitor_content,
                             FallbackEntry(comps[sc.idx], extract_content(page)))
                 ELSE sc.competitor_content
    IN  IF sc.idx < Len(comps)
        THEN [sc EXCEPT !.competitor_content = added, !.idx = @ + 1]
        ELSE IF added = <<>>
        THEN [sc EXCEPT !.pc = "failed",
                        !.error = "Failed to scrape any competitor content"]
        ELSE [sc EXCEPT !.competitor_content = added, !.pc = "scraped"]

(***************************************************************************)
(* WebScraper.scrape_url on the article page: a page is the length of its  *)
(* HTML, whether a title or h1 was found, and the length of its clean text.*)
(***************************************************************************)
MinArticleHtml    == 100     \* src/backend/scraper.py line 30
MinArticleContent == 100     \* src/backend/scraper.py line 83

ArticlePage(html, titled, body) == [html |-> html, titled |-> titled, body |-> body]

\* the message of the exception scrape_url raises on the page, "" if none
scrape_url(page) ==
    IF page.html = 0 \/ page.html < MinArticleHtml THEN "Failed to fetch URL"
    ELSE IF ~page.titled THEN "No title found in URL"
    ELSE IF page.body = 0 \/ page.body < MinArticleContent
         THEN "No meaningful content found in URL"
    ELSE ""

(***************************************************************************)
(* identify_article_capability.  The answer of the oracle either raises in *)
(* chat_completion, holds no {...}, holds text json.loads rejects, or is   *)
(* an object; its capability is None or a dict with some keys.             *)
(***************************************************************************)
NoCapability == [present |-> FALSE, fields |-> {}, name |-> None]
Capability(fields, name) == [present |-> TRUE, fields |-> fields, name |-> name]

\* capability.get('name')
CapabilityName(capability) ==
    IF "name" \in capability.fields THEN capability.name ELSE None

\* line 164: `not capability or not capability.get('name')`
NameMissingIgnored(capability) ==
    ~capability.present \/ capability.fields = {}
NameMissing(capability) ==
    \/ ~capability.present
    \/ capability.fields = {}
    \/ ~TruthyText(CapabilityName(capability))

\* the message of the exception identify_article_capability raises, "" if none
identify_article_capability(answer) ==
    CASE answer.kind = "raise"    -> "OpenAI API Error"
      [] answer.kind = "none"     ->
            "Failed to identify article capability - invalid JSON response"
      [] answer.kind = "bad_json" -> "JSONDecodeError"
      [] answer.kind = "object"   ->
            IF NameMissing(answer.capability)
            THEN "Failed to identify article capability" ELSE ""

(***************************************************************************)
(* extract_article_keywords, lines 311-358: the filter over the keywords   *)
(* of the oracle's answer.                                                 *)
(***************************************************************************)
ExtractCap == 10             \* line 358
NoDifficulty == "None"

\* lines 336-355: the loop over keywords[from..]; kept is filtered_keywords
RECURSIVE FilterExtracted(_, _, _)
FilterExtracted(keywords, volume_field, kept) ==
    IF keywords = <<>> THEN [error |-> "", keywords |-> kept]
    ELSE LET kw == Head(keywords)
             keyword_text == TextOr(kw.keyword, <<>>)
         IN  IF ~TruthyText(keyword_text)
                 THEN FilterExtracted(Tail(keywords), volume_field, kept)
             ELSE IF kw[volume_field] = NoVolume
                 THEN [error |-> "OpenAI did not return search volume",
                       keywords |-> <<>>]
             ELSE IF kw.cpc = NoVolume
                 THEN [error |-> "OpenAI did not return CPC", keywords |-> <<>>]
             ELSE IF kw.difficulty = NoDifficulty
                 THEN [error |-> "OpenAI did not return difficulty",
                       keywords |-> <<>>]
             ELSE FilterExtracted(Tail(keywords), volume_field,
                     IF is_excluded_keyword(keyword_text) THEN kept
                     ELSE Append(kept, [keyword       |-> keyword_text,
                                        search_volume |-> kw[volume_field]]))

\* lines 311-358: the outcome of extract_article_keywords on the answer
extract_article_keywords(answer, volume_field) ==
    CASE answer.kind = "raise"    -> [error |-> "OpenAI API Error", keywords |-> <<>>]
      [] answer.kind = "none"     ->
            [error |-> "OpenAI returned invalid JSON response", keywords |-> <<>>]
      [] answer.kind = "bad_json" -> [error |-> "JSONDecodeError", keywords |-> <<>>]
      [] answer.kind = "object"   ->
            IF answer.keywords = <<>>
            THEN [error |-> "OpenAI returned no keywords", keywords |-> <<>>]
            ELSE LET f == FilterExtracted(answer.keywords, volume_field, <<>>)
                 IN  IF f.error # "" THEN f
                     ELSE IF f.keywords = <<>>
                     THEN [error |-> "All extracted keywords were filtered out",
                           keywords |-> <<>>]
                     ELSE [error |-> "", keywords |-> Prefix(f.keywords, ExtractCap)]

(***************************************************************************)
(* Inputs of the model: keyword texts, article keyword lists, the answers  *)
(* of the mapping oracle.                                                  *)
(***************************************************************************)
T_form    == <<"f","o","r","m">>
T_survey  == <<"s","u","r","v","e","y">>
T_Vote    == <<"V","o","t","e">>
T_vote    == <<"v","o","t","e">>
T_chat    == <<"c","h","a","t">>
T_AEMForm == <<"A","E","M"," ","F","o","r","m","s">>
T_poll    == <<"p","o","l","l">>
T_PollSp  == <<"P","o","l","l"," ">>
T_rsvp    == <<"r","s","v","p">>
T_quiz    == <<"q","u","i","z">>
T_myAem   == <<"m","y"," ","A","e","m"," ","p","o","l","l">>

\* the dicts an article keyword list is made of, in the order they take
ArticleChoices == <<
    [keyword |-> T_form,    search_volume |-> 2],
    [keyword |-> T_Vote,    search_volume |-> 3],
    [keyword |-> None,      search_volume |-> 1],
    [keyword |-> T_AEMForm, search_volume |-> 3],
    [keyword |-> T_chat,    search_volume |-> NoVolume],
    [keyword |-> T_survey,  search_volume |-> 1] >>

RECURSIVE Pick(_, _, _)
Pick(s, chosen, i) ==
    IF i > Len(s) THEN <<>>
    ELSE (IF i \in chosen THEN <<s[i]>> ELSE <<>>) \o Pick(s, chosen, i + 1)

\* the article keyword lists: up to MaxArticleKw of the dicts above
ArticleInputs ==
    { Pick(ArticleChoices, chosen, 1) :
        chosen \in { c \in SUBSET (1..Len(ArticleChoices)) :
                        Cardinality(c) <= MaxArticleKw } }

\* a competitor_keyword object with a relevance_score
CkwScored(text, weekly, monthly, yearly, score) ==
    [keyword |-> text, weekly_volume |-> weekly,
     monthly_volume |-> monthly, yearly_volume |-> yearly,
     relevance_score |-> score]

\* a competitor_keyword object without relevance_score
Ckw(text, weekly, monthly, yearly) ==
    CkwScored(text, weekly, monthly, yearly, NoVolume)

NoCkw == Ckw(None, NoVolume, NoVolume, NoVolume)

\* the competitor_keyword objects the oracle may name for a competitor
TermsOf(comp_name) ==
    CASE comp_name = "Typeform" ->
            { CkwScored(T_poll, 2, 2, 2, 15),
              Ckw(T_rsvp, NoVolume, NoVolume, NoVolume),
              Ckw(T_myAem, 3, 3, 3),
              Ckw(<<>>, 1, 1, 1) }
      [] comp_name = "Jotform" ->
            { CkwScored(T_vote, 3, 3, 3, 9),
              Ckw(T_quiz, NoVolume, 1, NoVolume),
              Ckw(T_PollSp, 0, 0, 1),
              Ckw(T_rsvp, TextVolume, TextVolume, TextVolume) }
      [] OTHER ->
            { Ckw(T_poll, 3, 3, 3) }

\* chat_completion or json.loads raises
RaiseAnswer  == [kind |-> "raise",  has_competitor_keyword |-> FALSE,
                 competitor_keyword |-> NoCkw]
\* no {...} in the answer: find_competitor_keyword_for_article_keyword
\* returns None
NoJsonAnswer == [kind |-> "none",   has_competitor_keyword |-> FALSE,
                 competitor_keyword |-> NoCkw]
\* an object without competitor_keyword
NoCkwAnswer  == [kind |-> "object", has_competitor_keyword |-> FALSE,
                 competitor_keyword |-> NoCkw]
ObjectAnswer(ckw) == [kind |-> "object", has_competitor_keyword |-> TRUE,
                      competitor_keyword |-> ckw]

\* an entry of competitor_content holding the body of the competitor's
\* homepage (body characters), or no text at all
MainPageEntry(comp, body) ==
    [competitor_name |-> comp.name,
     urls_scraped    |-> <<comp.url>>,
     content         |-> IF body = 0 THEN <<>> ELSE <<Segment(comp.url, body)>>,
     pages_scraped   |-> 1]

RECURSIVE SelectEntries(_, _, _)
SelectEntries(comps, mask, i) ==
    IF i > Len(comps) THEN <<>>
    ELSE (IF mask[i] = "absent" THEN <<>>
          ELSE <<MainPageEntry(comps[i], IF mask[i] = "text" THEN 201 ELSE 0)>>)
         \o SelectEntries(comps, mask, i + 1)

\* the competitor_content lists handed to get_competitor_keywords
ContentInputs ==
    LET comps == PRODUCT_COMPETITORS("Forms")
    IN  { SelectEntries(comps, mask, 1) :
            mask \in [1..Len(comps) -> {"absent", "empty", "text"}] }

\* a call with more than MapKeywordCap keywords and more than
\* MapCompetitorCap contents: seven dicts, six of them with a keyword,
\* against the pages of Formstack, Wufoo and Typeform
LongArticleInput ==
    ArticleChoices \o <<ArticleChoices[1]>>

LongContentInput ==
    << MainPageEntry(FormsCompetitors[3], 201),
       MainPageEntry(FormsCompetitors[4], 201),
       MainPageEntry(FormsCompetitors[1], 201) >>

(***************************************************************************)
(* Inputs of the pipeline: the article page, the oracle's answers about    *)
(* the article, the competitors' web sites, and the URL guesses.           *)
(***************************************************************************)
ArticlePages ==
    { ArticlePage(0, FALSE, 0), ArticlePage(99, TRUE, 20),
      ArticlePage(5000, FALSE, 900), ArticlePage(5000, TRUE, 99),
      ArticlePage(5000, TRUE, 900) }

T_validation == <<"f","o","r","m"," ","r","u","l","e","s">>

CapabilityAnswers ==
    { [kind |-> k, capability |-> NoCapability] : k \in {"raise", "none", "bad_json"} }
    \cup
    { [kind |-> "object", capability |-> c] :
        c \in { NoCapability,
                Capability({}, None),
                Capability({"description"}, None),
                Capability({"name", "description"}, None),
                Capability({"name", "description"}, <<>>),
                Capability({"name", "description"}, T_validation) } }

Ekw(text, weekly, monthly, yearly, cpc, difficulty) ==
    [keyword |-> text, weekly_volume |-> weekly, monthly_volume |-> monthly,
     yearly_volume |-> yearly, cpc |-> cpc, difficulty |-> difficulty]

E_form   == Ekw(T_form, 2, 2, 2, 1, "Low")
E_survey == Ekw(T_survey, 3, 3, 3, 1, "High")
E_aem    == Ekw(T_AEMForm, 3, 3, 3, 2, "Low")
E_blank  == Ekw(<<>>, 1, 1, 1, 1, "Low")
E_novol  == Ekw(T_chat, NoVolume, NoVolume, NoVolume, 1, "Low")
E_nocpc  == Ekw(T_chat, 1, 1, 1, NoVolume, "Low")
E_nodiff == Ekw(T_chat, 1, 1, 1, 1, NoDifficulty)

ExtractAnswers ==
    { [kind |-> k, keywords |-> <<>>] : k \in {"raise", "none", "bad_json", "object"} }
    \cup
    { [kind |-> "object", keywords |-> ks] :
        ks \in { <<E_form>>, <<E_aem>>, <<E_blank, E_aem, E_form>>,
                 <<E_survey, E_form>>, <<E_form, E_novol>>, <<E_nocpc>>,
                 <<E_nodiff, E_form>> } }

\* the article keyword lists handed to analyze_competitor_keywords directly
T_FormSp == <<"F","o","r","m"," ">>

PipeArticleInputs ==
    { <<>>, <<ArticleChoices[1]>>, <<ArticleChoices[4]>>,
      <<ArticleChoices[3], ArticleChoices[2]>>,
      <<ArticleChoices[1], [keyword |-> T_FormSp, search_volume |-> 1]>> }

PipeTimeRanges == {"month", "quarter"}

P_fail  == Page(0, 0, <<>>)
P_short == Page(600, 150, <<>>)
P_200   == Page(2000, 200, <<>>)
P_201   == Page(2000, 201, <<>>)

\* a long homepage with a help anchor, a foreign anchor and a plain anchor
P_long(host) ==
    Page(20000, 9000,
         << Anchor(Url(host, "/help-center"), TRUE, "relative"),
            Anchor(Url("www.example.org", "/help"), TRUE, "absolute"),
            Anchor(Url(host, "/pricing"), FALSE, "relative") >>)

\* the path the oracle guesses for the capability
GuessPath == "/features/logic"

\* what a fetch of `url` may return: the homepage, the two pages of a site
\* that may exist, and every other path, which is not served
WebPages(url) ==
    IF url.path = "/" THEN {P_fail, P_200, P_long(url.host)}
    ELSE IF url.path \in {GuessPath, "/help"} THEN {P_fail, P_short, P_200, P_201}
    ELSE {P_fail}

GuessAnswer(kind, truthy, probable_urls) ==
    [kind |-> kind, truthy |-> truthy, probable_urls |-> probable_urls]

\* the answers of find_competitor_capability_urls for a competitor
GuessAnswers(comp) ==
    { GuessAnswer(k, FALSE, <<>>) : k \in {"raise", "none", "bad_json", "object"} }
    \cup
    { GuessAnswer("object", TRUE, urls) :
        urls \in { <<>>,
                   <<Url(comp.url.host, GuessPath)>>,
                   <<Url(comp.url.host, "/help"), Url(comp.url.host, GuessPath),
                     Url(comp.url.host, "/help")>> } }

(***************************************************************************)
(* State.                                                                  *)
(***************************************************************************)
VARIABLES
    entry,                        \* the public method the run was started by
    product, time_range,          \* arguments of the run
    article_keywords,             \* argument / result of keyword extraction
    competitor_content,           \* list built by the scraper, read by the mapper
    pc,                           \* where the run is suspended, or done/failed
    error,                        \* message of the exception that ended the run
    ki, ci,                       \* mapper: article keyword and competitor index
    competitor_terms_for_keyword, \* mapper: terms accepted in this round
    competitor_keywords_all,      \* mapper: merged competitor keywords
    keyword_mappings,             \* mapper: one entry per mapped article keyword
    result,                       \* dict returned by get_competitor_keywords
    capability_answer,            \* what the capability oracle answered
    idx,                          \* scraper: index of the competitor at hand
    fallback_content,             \* scraper: body length of its homepage
    discovered_help_urls,         \* scraper: result of discover_help_urls
    unique_urls,                  \* scraper: candidate URLs, deduplicated
    url_i,                        \* scraper: index of the candidate at hand
    scrape_result,                \* scraper: dict of scrape_capability_specific_urls
    last_guess,                   \* history: how the latest URL guess ended
    candidates_short,             \* history: every candidate page fetched since the
                                  \* latest homepage held under 200 characters
    request_count,                \* CompetitorFetchingAgent.request_count
    fetch_pc,                     \* per request: between fetches, or in one
    fetch_log,                    \* the _fetch_page calls made, in call order
    chunks,                       \* rewriter: the sections of the content
    chunk_i, attempt,             \* rewriter: chunk and attempt of the call
    rewritten_chunks, successful, \* rewriter: the output and its counter
    target_keywords,              \* rewriter: the keywords it was called with
    network_ops                   \* history: kinds of network operation issued

vars == <<entry, product, time_range, article_keywords, competitor_content,
          pc, error, ki, ci, competitor_terms_for_keyword,
          competitor_keywords_all, keyword_mappings, result,
          capability_answer, idx, fallback_content, discovered_help_urls,
          unique_urls, url_i, scrape_result, last_guess, candidates_short,
          request_count, fetch_pc, fetch_log,
          chunks, chunk_i, attempt, rewritten_chunks, successful, target_keywords,
          network_ops>>

inputVars == <<entry, product, time_range>>

\* header rotation of _fetch_page; the runs of the pipeline are followed
\* without it, RotationSpec follows the rotation on its own
rotationVars == <<request_count, fetch_pc, fetch_log>>

\* rewrite_content_for_seo, followed in RewriteSpec
rewriteVars == <<chunks, chunk_i, attempt, rewritten_chunks, successful,
                 target_keywords>>

mapperVars == <<ki, ci, competitor_terms_for_keyword, competitor_keywords_all,
                keyword_mappings, result>>

scraperVars == <<idx, fallback_content, discovered_help_urls, unique_urls,
                 url_i, scrape_result, last_guess, candidates_short>>

\* the network operation a suspended run is waiting for
OpOf(at) ==
    CASE at = "article"   -> {"article_fetch"}
      [] at = "extract"   -> {"extract_oracle"}
      [] at = "identify"  -> {"capability_oracle"}
      [] at \in {"homepage", "candidate", "base", "fallback"}
                          -> {"competitor_fetch"}
      [] at = "guess"     -> {"url_guess_oracle"}
      [] at = "map"       -> {"mapping_oracle"}
      [] OTHER            -> {}

\* the step ends by issuing the operation the run is suspended at next
Issue == network_ops' = network_ops \cup OpOf(pc')

MapperState ==
    [pc |-> pc, ki |-> ki, ci |-> ci, terms |-> competitor_terms_for_keyword,
     all |-> competitor_keywords_all, maps |-> keyword_mappings, error |-> error]

\* the mapper's variables after it ran to its next suspension point, to its
\* return (lines 583-658) or to its failure
SetMapper(st) ==
    /\ pc' = IF st.pc = "rank"
             THEN (IF RankRaises(article_keywords, st.all) THEN "failed"
                   ELSE "done")
             ELSE st.pc
    /\ error' = IF st.pc = "rank" /\ RankRaises(article_keywords, st.all)
                THEN SortError ELSE st.error
    /\ ki' = st.ki
    /\ ci' = st.ci
    /\ competitor_terms_for_keyword' = st.terms
    /\ competitor_keywords_all' = st.all
    /\ keyword_mappings' = st.maps
    /\ result' = IF st.pc = "rank" /\ ~RankRaises(article_keywords, st.all)
                 THEN MapperResult(article_keywords, st.all, st.maps)
                 ELSE NoResult

\* the capability oracle was not asked yet
NotAsked == [kind |-> "not_asked", capability |-> NoCapability]

\* no call of get_competitor_content_for_capability is active
ScraperIdle ==
    /\ idx = ScraperStart.idx
    /\ fallback_content = ScraperStart.fallback_content
    /\ discovered_help_urls = ScraperStart.discovered_help_urls
    /\ unique_urls = ScraperStart.unique_urls
    /\ url_i = ScraperStart.url_i
    /\ scrape_result = ScraperStart.scrape_result
    /\ last_guess = "none"
    /\ candidates_short = TRUE

(***************************************************************************)
(* _get_rotated_headers and _fetch_page.                                   *)
(***************************************************************************)
\* length of headers_list
HeaderPoolSize == 3
\* requests that share the agent, and the fetches each of them makes
Requests == {1, 2}
MaxFetches == 3

\* every call answers with the first header set
get_rotated_headers_first(count) ==
    [request_count |-> count + 1, header_index |-> 0]
\* lines 63-67: the counter and the index after the call
get_rotated_headers(count) ==
    [request_count |-> count + 1,
     header_index  |-> (count + 1) % HeaderPoolSize]

\* no fetch was made yet
RotationIdle ==
    /\ request_count = 0
    /\ fetch_pc = [r \in Requests |-> "ready"]
    /\ fetch_log = <<>>

\* rewrite_content_for_seo is not running
RewriteIdle ==
    /\ chunks = <<>>
    /\ chunk_i = 1
    /\ attempt = 0
    /\ rewritten_chunks = <<>>
    /\ successful = 0
    /\ target_keywords = <<>>

(***************************************************************************)
(* get_competitor_keywords called on its own.                              *)
(***************************************************************************)
MapInit ==
    /\ entry = "get_competitor_keywords"
    /\ product \in Products
    /\ time_range \in TimeRanges
    /\ article_keywords \in ArticleInputs \cup {LongArticleInput}
    /\ competitor_content \in IF article_keywords = LongArticleInput
                              THEN {LongContentInput} ELSE ContentInputs
    /\ pc = "call"
    /\ error = ""
    /\ ki = 1
    /\ ci = 1
    /\ competitor_terms_for_keyword = <<>>
    /\ competitor_keywords_all = <<>>
    /\ keyword_mappings = <<>>
    /\ result = NoResult
    /\ capability_answer = NotAsked
    /\ ScraperIdle
    /\ RotationIdle
    /\ RewriteIdle
    /\ network_ops = {}

\* lines 443-460 and the loops up to the first oracle call
get_competitor_keywords ==
    /\ pc = "call"
    /\ entry = "get_competitor_keywords"
    /\ \E st \in {EnterMapper(product, article_keywords, time_range,
                              competitor_content)} : SetMapper(st)
    /\ Issue
    /\ UNCHANGED <<inputVars, rotationVars, rewriteVars, article_keywords, competitor_content,
                   capability_answer, scraperVars>>

\* the competitor whose content the pending oracle call is about
MapComp == Prefix(competitor_content, MapCompetitorCap)[ci]

\* lines 497-530: the oracle call of pair (ki, ci) returns `answer`
MapAnswer(answer) ==
    LET content == Prefix(competitor_content, MapCompetitorCap)
        added   == AcceptTerm(answer, MapComp.competitor_name,
                              volume_field_name(time_range))
    IN  /\ \E st \in {RunMapper(article_keywords, content,
                 [MapperState EXCEPT !.terms = @ \o added, !.ci = @ + 1])} :
              SetMapper(st)
        /\ Issue
        /\ UNCHANGED <<inputVars, rotationVars, rewriteVars, article_keywords, competitor_content,
                       capability_answer, scraperVars>>

\* chat_completion or json.loads raises: caught at line 528
MapOracleRaises ==
    /\ pc = "map"
    /\ MapAnswer(RaiseAnswer)

\* the answer holds no object, or an object without competitor_keyword
MapOracleEmpty ==
    /\ pc = "map"
    /\ \E answer \in {NoJsonAnswer, NoCkwAnswer} : MapAnswer(answer)

\* the answer names a competitor keyword
MapOracleAnswers ==
    /\ pc = "map"
    /\ \E ckw \in TermsOf(MapComp.competitor_name) : MapAnswer(ObjectAnswer(ckw))

MapNext ==
    \/ get_competitor_keywords
    \/ MapOracleRaises
    \/ MapOracleEmpty
    \/ MapOracleAnswers

MapSpec == MapInit /\ [][MapNext]_vars

(***************************************************************************)
(* The pipeline: full_seo_analysis and analyze_competitor_keywords.        *)
(***************************************************************************)
Init ==
    /\ entry \in {"full_seo_analysis", "analyze_competitor_keywords"}
    /\ product \in Products
    /\ time_range \in PipeTimeRanges
    /\ article_keywords \in
           IF entry = "analyze_competitor_keywords" THEN PipeArticleInputs
           ELSE {<<>>}
    /\ competitor_content = <<>>
    /\ pc = "call"
    /\ error = ""
    /\ ki = 1
    /\ ci = 1
    /\ competitor_terms_for_keyword = <<>>
    /\ competitor_keywords_all = <<>>
    /\ keyword_mappings = <<>>
    /\ result = NoResult
    /\ capability_answer = NotAsked
    /\ ScraperIdle
    /\ RotationIdle
    /\ RewriteIdle
    /\ network_ops = {}

\* the run ends with an exception
Fail(msg) ==
    /\ pc' = "failed"
    /\ error' = msg
    /\ Issue
    /\ UNCHANGED <<inputVars, rotationVars, rewriteVars, article_keywords, competitor_content, mapperVars,
                   capability_answer, scraperVars>>

\* the run moves on to its next await without touching its data
Await(at) ==
    /\ pc' = at
    /\ Issue
    /\ UNCHANGED <<inputVars, rotationVars, rewriteVars, article_keywords, competitor_content, error,
                   mapperVars, capability_answer, scraperVars>>

\* CompetitorFetchingAgent.execute / get_competitors, lines 69-73
UnknownProduct(p) == PRODUCT_COMPETITORS(p) = <<>>

\* crew.py lines 143-147: get_competitors, then the article fetch is issued
full_seo_analysis ==
    /\ pc = "call"
    /\ entry = "full_seo_analysis"
    /\ IF UnknownProduct(product) THEN Fail("Unknown product type")
       ELSE Await("article")

\* crew.py lines 147-148 and llm_client.py line 261: the article page came
\* back; extract_article_keywords checks time_range before it asks the oracle
ArticleFetched ==
    /\ pc = "article"
    /\ \E page \in ArticlePages :
          IF scrape_url(page) # "" THEN Fail(scrape_url(page))
          ELSE IF ~ValidTimeRange(time_range) THEN Fail("Invalid time_range")
          ELSE Await("extract")

\* llm_client.py lines 311-358, crew.py line 157 and
\* competitive_analysis_agent.py lines 69-75: the extraction oracle answered;
\* analyze_competitor_keywords starts and asks the capability oracle
ExtractAnswered ==
    /\ pc = "extract"
    /\ \E answer \in ExtractAnswers :
          \E r \in {extract_article_keywords(answer, volume_field_name(time_range))} :
              IF r.error # "" THEN Fail(r.error)
              ELSE /\ article_keywords' = r.keywords
                   /\ pc' = "identify"
                   /\ Issue
                   /\ UNCHANGED <<inputVars, rotationVars, rewriteVars, competitor_content, error, mapperVars,
                                  capability_answer, scraperVars>>

\* competitive_analysis_agent.py lines 69-75
analyze_competitor_keywords ==
    /\ pc = "call"
    /\ entry = "analyze_competitor_keywords"
    /\ IF UnknownProduct(product) THEN Fail("Unknown product type")
       ELSE Await("identify")

\* llm_client.py lines 151-177, competitive_analysis_agent.py line 89 and
\* competitor_agent.py lines 473-495: the capability oracle answered; the
\* scraper starts and fetches the first competitor's homepage
CapabilityAnswered ==
    /\ pc = "identify"
    /\ \E answer \in CapabilityAnswers :
          /\ capability_answer' = answer
          /\ \E msg \in {identify_article_capability(answer)} :
                /\ pc' = IF msg # "" THEN "failed" ELSE ScraperStart.pc
                /\ error' = msg
          /\ Issue
          /\ UNCHANGED <<inputVars, rotationVars, rewriteVars, article_keywords, competitor_content,
                         mapperVars, scraperVars>>

Comps == PRODUCT_COMPETITORS(product)

ScraperState ==
    [pc |-> pc, idx |-> idx, competitor_content |-> competitor_content,
     fallback_content |-> fallback_content,
     discovered_help_urls |-> discovered_help_urls,
     unique_urls |-> unique_urls, url_i |-> url_i,
     scrape_result |-> scrape_result, error |-> error]

\* the scraper's variables after it ran to its next await; when it returned
\* (lines 612-632), analyze_competitor_keywords goes on to
\* get_competitor_keywords (competitive_analysis_agent.py lines 95-113)
SetScraper(sc, guess, short) ==
    /\ competitor_content' = sc.competitor_content
    /\ IF sc.pc \in {"scraped", "failed"}
       THEN /\ idx' = ScraperStart.idx
            /\ fallback_content' = ScraperStart.fallback_content
            /\ discovered_help_urls' = ScraperStart.discovered_help_urls
            /\ unique_urls' = ScraperStart.unique_urls
            /\ url_i' = ScraperStart.url_i
            /\ scrape_result' = ScraperStart.scrape_result
       ELSE /\ idx' = sc.idx
            /\ fallback_content' = sc.fallback_content
            /\ discovered_help_urls' = sc.discovered_help_urls
            /\ unique_urls' = sc.unique_urls
            /\ url_i' = sc.url_i
            /\ scrape_result' = sc.scrape_result
    /\ last_guess' = guess
    /\ candidates_short' = short
    /\ IF sc.pc = "scraped"
       THEN \E st \in {EnterMapper(product, article_keywords, time_range,
                                   sc.competitor_content)} : SetMapper(st)
       ELSE /\ pc' = sc.pc
            /\ error' = sc.error
            /\ UNCHANGED mapperVars
    /\ Issue
    /\ UNCHANGED <<inputVars, rotationVars, rewriteVars, article_keywords, capability_answer>>

\* competitor_agent.py lines 495-506: the homepage of competitor idx came back
HomepageReturns ==
    /\ pc = "homepage"
    /\ \E page \in WebPages(Comps[idx].url) :
          \E sc \in {HomepageFetched(Comps[idx], ScraperState, page)} :
              SetScraper(sc, last_guess, TRUE)

\* competitor_agent.py lines 507-577: the URL guess of competitor idx came back
GuessReturns ==
    /\ pc = "guess"
    /\ \E answer \in GuessAnswers(Comps[idx]) :
          \E sc \in {GuessAnswered(Comps, ScraperState, answer)} :
              SetScraper(sc,
                         IF answer.kind = "object" THEN "answered" ELSE "raised",
                         candidates_short)

\* competitor_agent.py lines 419-447: candidate url_i came back
CandidateReturns ==
    /\ pc = "candidate"
    /\ \E page \in WebPages(unique_urls[url_i]) :
          \E sc \in {CandidateFetched(Comps, ScraperState, page)} :
              SetScraper(sc, last_guess,
                         candidates_short /\ extract_content(page) < MinContent)

\* competitor_agent.py lines 448-456 and 542-577: the base URL came back
BaseReturns ==
    /\ pc = "base"
    /\ \E page \in WebPages(Comps[idx].url) :
          \E sc \in {BaseFetched(Comps, ScraperState, page)} :
              SetScraper(sc, last_guess, candidates_short)

\* competitor_agent.py lines 587-610: a homepage of the fallback pass came back
FallbackReturns ==
    /\ pc = "fallback"
    /\ \E page \in WebPages(Comps[idx].url) :
          \E sc \in {FallbackFetched(Comps, ScraperState, page)} :
              SetScraper(sc, last_guess, candidates_short)

Next ==
    \/ full_seo_analysis
    \/ ArticleFetched
    \/ ExtractAnswered
    \/ analyze_competitor_keywords
    \/ CapabilityAnswered
    \/ HomepageReturns
    \/ GuessReturns
    \/ CandidateReturns
    \/ BaseReturns
    \/ FallbackReturns
    \/ MapOracleRaises
    \/ MapOracleEmpty
    \/ MapOracleAnswers

Spec == Init /\ [][Next]_vars

\* the runs of analyze_competitor_keywords: its steps up to the mapper, and
\* the return of a mapping oracle call
LiveInit == Init /\ entry = "analyze_competitor_keywords"

ScraperStep ==
    \/ analyze_competitor_keywords
    \/ CapabilityAnswered
    \/ HomepageReturns
    \/ GuessReturns
    \/ CandidateReturns
    \/ BaseReturns
    \/ FallbackReturns

MapperStep ==
    \/ MapOracleRaises
    \/ MapOracleEmpty
    \/ MapOracleAnswers

LiveNext ==
    \/ ScraperStep
    \/ MapperStep

\* the run under the assumption that every page fetch and every oracle
\* call eventually returns, with a value or a failure.  The last conjunct
\* is WF_vars(MapperStep) written out: a mapping oracle call is pending,
\* and MapperStep enabled, exactly when pc = "map".
LiveSpec ==
    /\ LiveInit
    /\ [][LiveNext]_vars
    /\ WF_vars(ScraperStep)
    /\ ([]<>(pc # "map") \/ []<><<MapperStep>>_vars)

(***************************************************************************)
(* Two requests that share one CompetitorFetchingAgent and fetch pages:    *)
(* the code of _fetch_page up to its first await runs in one step.         *)
(***************************************************************************)
\* no run of the pipeline is active
RunIdle ==
    /\ product = "Forms"
    /\ time_range = "month"
    /\ article_keywords = <<>>
    /\ competitor_content = <<>>
    /\ pc = "call"
    /\ error = ""
    /\ ki = 1
    /\ ci = 1
    /\ competitor_terms_for_keyword = <<>>
    /\ competitor_keywords_all = <<>>
    /\ keyword_mappings = <<>>
    /\ result = NoResult
    /\ capability_answer = NotAsked
    /\ ScraperIdle
    /\ network_ops = {}

runVars == <<inputVars, article_keywords, competitor_content, pc, error,
             mapperVars, capability_answer, scraperVars, network_ops>>

RotationInit ==
    /\ entry = "_fetch_page"
    /\ RunIdle
    /\ RotationIdle
    /\ RewriteIdle

FetchesOf(r) == Cardinality({k \in 1..Len(fetch_log) : fetch_log[k].request = r})

\* lines 175-181: request r calls _fetch_page, which takes its headers and
\* suspends at the HTTP request
FetchBegins ==
    \E r \in Requests :
        /\ fetch_pc[r] # "in_flight"
        /\ FetchesOf(r) < MaxFetches
        /\ \E h \in {get_rotated_headers(request_count)} :
              /\ request_count' = h.request_count
              /\ fetch_log' = Append(fetch_log,
                     [request |-> r, header_index |-> h.header_index])
        /\ fetch_pc' = [fetch_pc EXCEPT ![r] = "in_flight"]
        /\ UNCHANGED <<runVars, rewriteVars>>

\* lines 182-195: the HTTP request of r returns a page, or fails and
\* _fetch_page returns ""
FetchReturns ==
    \E r \in Requests, outcome \in {"page", "empty"} :
        /\ fetch_pc[r] = "in_flight"
        /\ fetch_pc' = [fetch_pc EXCEPT ![r] = outcome]
        /\ UNCHANGED <<runVars, rewriteVars, request_count, fetch_log>>

RotationNext ==
    \/ FetchBegins
    \/ FetchReturns

RotationSpec == RotationInit /\ [][RotationNext]_vars

(***************************************************************************)
(* rewrite_content_for_seo: the sections of the content are rewritten one  *)
(* after the other, each call of _rewrite_section being a suspension       *)
(* point.  A text is followed by its length and by where it came from.     *)
(***************************************************************************)
max_retries == 2

MinRewritten == 50

MaxChunks == 3

\* lengths of the sections _split_into_sections can make of a content
ChunkLengths == {30, 4000}

\* line 795: a content of up to 4000 characters is one section (line 671),
\* a longer one is cut into one section or more
ChunkInputs ==
    UNION {[1..n -> ChunkLengths] : n \in 1..MaxChunks}

TargetInputs ==
    {<<>>, <<"forms">>, <<"forms", "survey", "quiz", "poll">>}

\* what _rewrite_section can answer: None or "", a text of 50 characters,
\* a text of 51
AnswerLengths == {0, MinRewritten, MinRewritten + 1}

\* the text _rewrite_section answered at this attempt for chunk k
Rewritten(k, a, len) ==
    [source |-> "rewritten", chunk |-> k, attempt |-> a, length |-> len]

\* f"<p>{chunk}</p>" of lines 833 and 842
Original(k, chunk) ==
    [source |-> "original", chunk |-> k, attempt |-> max_retries - 1,
     length |-> chunk + 7]

Separator == [source |-> "separator", chunk |-> 0, attempt |-> 0, length |-> 2]

\* "\n\n".join(parts) of line 849
RECURSIVE Join(_)
Join(parts) ==
    IF Len(parts) <= 1 THEN parts
    ELSE <<parts[1], Separator>> \o Join(Tail(parts))

RewriteStart(cs) ==
    [pc |-> "rewrite", chunk_i |-> 1, attempt |-> 0,
     rewritten_chunks |-> <<>>, successful |-> 0, chunks |-> cs]

\* lines 831 and 839: the attempt is the last one of the chunk
LastAttemptNever(a) == FALSE

LastAttempt(a) == a = max_retries - 1

\* the for loop of line 806 moves to the next chunk, or ends
NextChunk(rw) ==
    IF rw.chunk_i = Len(rw.chunks)
    THEN [rw EXCEPT !.pc = "done", !.chunk_i = @ + 1, !.attempt = 0]
    ELSE [rw EXCEPT !.chunk_i = @ + 1, !.attempt = 0]

\* the for loop of line 814 moves to the next attempt, or ends
NextAttempt(rw) ==
    IF rw.attempt + 1 < max_retries
    THEN [rw EXCEPT !.attempt = @ + 1, !.pc = "rewrite"]
    ELSE NextChunk(rw)

UseOriginal(rw) ==
    [rw EXCEPT !.rewritten_chunks =
        Append(@, Original(rw.chunk_i, rw.chunks[rw.chunk_i]))]

\* lines 824-833: _rewrite_section answered a text of this length
AfterAnswer(rw, len) ==
    IF len > MinRewritten
    THEN NextChunk([rw EXCEPT
             !.rewritten_chunks =
                 Append(@, Rewritten(rw.chunk_i, rw.attempt, len)),
             !.successful = @ + 1])
    ELSE IF LastAttempt(rw.attempt)
    THEN NextAttempt(UseOriginal(rw))
    ELSE NextAttempt(rw)

\* lines 835-846: _rewrite_section raised
AfterException(rw) ==
    IF LastAttempt(rw.attempt)
    THEN NextAttempt(UseOriginal(rw))
    ELSE [rw EXCEPT !.pc = "sleep"]

\* lines 856-862
RewriteResult(rw, keywords) ==
    [status            |-> "success",
     rewritten_content |-> Join(rw.rewritten_chunks),
     target_keywords   |-> SubSeq(keywords, 1, Min(3, Len(keywords))),
     chunks_processed  |-> rw.successful,
     total_chunks      |-> Len(rw.chunks)]

Rewriter ==
    [pc |-> pc, chunk_i |-> chunk_i, attempt |-> attempt,
     rewritten_chunks |-> rewritten_chunks, successful |-> successful,
     chunks |-> chunks]

restVars == <<inputVars, article_keywords, competitor_content, ki, ci,
              competitor_terms_for_keyword, competitor_keywords_all,
              keyword_mappings, capability_answer, scraperVars, network_ops,
              rotationVars, chunks, target_keywords>>

SetRewriter(rw) ==
    /\ pc' = rw.pc
    /\ chunk_i' = rw.chunk_i
    /\ attempt' = rw.attempt
    /\ rewritten_chunks' = rw.rewritten_chunks
    /\ successful' = rw.successful
    /\ result' = IF rw.pc = "done" THEN RewriteResult(rw, target_keywords)
                 ELSE result
    /\ UNCHANGED <<error, restVars>>

RewriteInit ==
    /\ entry = "rewrite_content_for_seo"
    /\ RunIdle
    /\ RotationIdle
    /\ chunks \in ChunkInputs
    /\ target_keywords \in TargetInputs
    /\ chunk_i = 1
    /\ attempt = 0
    /\ rewritten_chunks = <<>>
    /\ successful = 0

\* lines 782-816: up to the first call of _rewrite_section
rewrite_content_for_seo ==
    /\ entry = "rewrite_content_for_seo"
    /\ pc = "call"
    /\ IF target_keywords = <<>>
       THEN /\ pc' = "failed"
            /\ error' = "No target keywords provided"
            /\ UNCHANGED <<restVars, result, chunk_i, attempt,
                           rewritten_chunks, successful>>
       ELSE SetRewriter(RewriteStart(chunks))

\* _rewrite_section returns a text
RewriteAnswers ==
    /\ pc = "rewrite"
    /\ \E len \in AnswerLengths : SetRewriter(AfterAnswer(Rewriter, len))

\* _rewrite_section raises
RewriteRaises ==
    /\ pc = "rewrite"
    /\ SetRewriter(AfterException(Rewriter))

\* asyncio.sleep(1) of line 846 returns
SleepReturns ==
    /\ pc = "sleep"
    /\ SetRewriter(NextAttempt(Rewriter))

RewriteNext ==
    \/ rewrite_content_for_seo
    \/ RewriteAnswers
    \/ RewriteRaises
    \/ SleepReturns

RewriteSpec == RewriteInit /\ [][RewriteNext]_vars

(***************************************************************************)
(* Properties of the result of get_competitor_keywords.                    *)
(***************************************************************************)
Returned == pc = "done"

Suggested == result.suggested_keywords

\* a text holds an excluded product term as a case-insensitive substring
HoldsExcludedTerm(text) ==
    \E k \in 1..Len(EXCLUDED_PRODUCT_TERMS) :
        Contains(EXCLUDED_PRODUCT_TERMS[k], Lower(text))

NonIncreasing(kws) ==
    \A i \in 1..(Len(kws) - 1) : kws[i].search_volume >= kws[i + 1].search_volume

\* C1: in every returned result, each entry of suggested_keywords has a
\* search_volume greater than or equal to that of the entry after it.
C1_SuggestedSorted == Returned => NonIncreasing(Suggested)

\* a competitor keyword was moved ahead of an article keyword of smaller volume
C1_Witness ==
    /\ Returned
    /\ \E i, j \in 1..Len(Suggested) :
          /\ i < j
          /\ Suggested[i].used_by # <<>>
          /\ Suggested[j].used_by = <<>>
          /\ Suggested[i].search_volume > Suggested[j].search_volume

C3_SuggestedUnique ==
    Returned =>
        \A i, j \in 1..Len(Suggested) :
            i # j => Lower(Suggested[i].keyword) # Lower(Suggested[j].keyword)

\* two candidates differed in case only, and one of them was returned
C3_Witness ==
    /\ Returned
    /\ LET pool == all_keywords_for_suggestion(result.article_keywords,
                                               result.competitor_keywords)
       IN  \E i, j \in 1..Len(pool) :
              /\ pool[i].keyword # pool[j].keyword
              /\ Lower(pool[i].keyword) = Lower(pool[j].keyword)
              /\ \E k \in 1..Len(Suggested) :
                    Suggested[k].keyword \in {pool[i].keyword, pool[j].keyword}

\* C5: in every returned result the competitor_keywords list of each
\* keyword_mappings entry is ordered by non-increasing search_volume.
C5_MappingSorted ==
    Returned =>
        \A m \in 1..Len(result.keyword_mappings) :
            NonIncreasing(result.keyword_mappings[m].competitor_keywords)

\* a mapping lists the competitor queried second ahead of the one queried
\* first, because its volume is larger
C5_Witness ==
    /\ Returned
    /\ \E m \in 1..Len(result.keyword_mappings) :
          LET cks == result.keyword_mappings[m].competitor_keywords
          IN  /\ Len(cks) = 2
              /\ cks[1].competitor = competitor_content[2].competitor_name
              /\ cks[2].competitor = competitor_content[1].competitor_name
              /\ cks[1].search_volume > cks[2].search_volume

\* the terms accepted from the oracle: round, normalised text, competitor
AcceptedTerms ==
    UNION { { [round      |-> m,
               norm       |-> Strip(Lower(result.keyword_mappings[m].competitor_keywords[t].keyword)),
               competitor |-> result.keyword_mappings[m].competitor_keywords[t].competitor] :
              t \in 1..Len(result.keyword_mappings[m].competitor_keywords) } :
            m \in 1..Len(result.keyword_mappings) }

SeqToSet(s) == {s[i] : i \in 1..Len(s)}

\* C6: a competitor term accepted for several competitors, in one round or
\* in several, has exactly one entry in competitor_keywords, and the used_by
\* of that entry holds each of these competitors exactly once.
C6_MergedOnce ==
    Returned =>
        \A a \in AcceptedTerms :
            LET ckws == result.competitor_keywords
                hits == {i \in 1..Len(ckws) : Strip(Lower(ckws[i].keyword)) = a.norm}
            IN  /\ Cardinality(hits) = 1
                /\ \A i \in hits :
                      /\ SeqToSet(ckws[i].used_by) =
                            {b.competitor : b \in {c \in AcceptedTerms : c.norm = a.norm}}
                      /\ Len(ckws[i].used_by) = Cardinality(SeqToSet(ckws[i].used_by))

\* one term was accepted for two competitors under texts that differ in case
\* or surrounding whitespace, and again for one of them in a later round
C6_Witness ==
    /\ Returned
    /\ \E a, b, c \in AcceptedTerms :
          /\ a.norm = b.norm /\ a.competitor # b.competitor
          /\ c.norm = a.norm /\ c.competitor = a.competitor /\ c.round # a.round
    /\ \E m \in 1..Len(result.keyword_mappings) :
          LET cks == result.keyword_mappings[m].competitor_keywords
          IN  \E s, t \in 1..Len(cks) :
                 /\ cks[s].keyword # cks[t].keyword
                 /\ Strip(Lower(cks[s].keyword)) = Strip(Lower(cks[t].keyword))

(***************************************************************************)
(* Properties of the pipeline.                                             *)
(***************************************************************************)
\* no dict of the list carries a keyword holding an excluded product term
CleanList(kws) ==
    \A i \in 1..Len(kws) :
        TruthyText(kws[i].keyword) => ~HoldsExcludedTerm(kws[i].keyword)

\* C4: no keyword list of any stage holds an excluded product term: neither
\* the list extract_article_keywords returned, nor the article_keywords,
\* competitor_keywords and suggested_keywords of the result, nor the article
\* keyword and the competitor keywords of any keyword_mappings entry,
\* whatever the oracle answered and whatever article keywords were passed in.
C4_NoExcludedTermAnywhere ==
    /\ entry = "full_seo_analysis" => CleanList(article_keywords)
    /\ Returned =>
          /\ CleanList(result.article_keywords)
          /\ CleanList(result.competitor_keywords)
          /\ CleanList(result.suggested_keywords)
          /\ \A m \in 1..Len(result.keyword_mappings) :
                /\ CleanList(<<result.keyword_mappings[m].article_keyword>>)
                /\ CleanList(result.keyword_mappings[m].competitor_keywords)

\* the capability oracle answered an object whose capability has no name or
\* an empty one
AnswerWithoutName ==
    /\ capability_answer.kind = "object"
    /\ \/ "name" \notin capability_answer.capability.fields
       \/ capability_answer.capability.name \in {None, <<>>}

\* C7: when the capability oracle's answer parses to an object whose
\* capability has no (or an empty) name, the run has failed with the
\* capability-identification error, and no competitor page fetch and no
\* URL-guess oracle call is ever issued in it.
C7_NoNameFailsBeforeScraping ==
    AnswerWithoutName =>
        /\ pc = "failed"
        /\ error = "Failed to identify article capability"
        /\ network_ops \cap {"competitor_fetch", "url_guess_oracle"} = {}

C7_Witness ==
    /\ capability_answer.kind = "object"
    /\ capability_answer.capability.present
    /\ "name" \in capability_answer.capability.fields
    /\ capability_answer.capability.name = <<>>
    /\ pc = "failed"
    /\ "capability_oracle" \in network_ops

\* C8: a run started with a time_range other than week, month or year has
\* failed as soon as it was started, and no network operation was issued in
\* it; this holds for full_seo_analysis and for analyze_competitor_keywords.
C8_InvalidTimeRangeFailsFirst ==
    (~ValidTimeRange(time_range) /\ pc # "call") =>
        /\ pc = "failed"
        /\ network_ops = {}

\* the step in which the URL guess for competitor idx raised
GuessRaisedStep == pc = "guess" /\ last_guess' = "raised"

\* the step added the homepage of `comp` to competitor_content
HomepageAdded(comp) ==
    /\ Len(competitor_content') = Len(competitor_content) + 1
    /\ SubSeq(competitor_content', 1, Len(competitor_content)) = competitor_content
    /\ LET e == competitor_content'[Len(competitor_content')]
       IN  /\ e.competitor_name = comp.name
           /\ e.urls_scraped = <<comp.url>>
           /\ e.pages_scraped = 1
           /\ e.content # <<>>
           /\ \A k \in 1..Len(e.content) : e.content[k].url = comp.url

\* the scraper did not abort and went on to the competitors that remain
ScraperGoesOn ==
    /\ error' # "Failed to scrape any competitor content"
    /\ idx < Len(Comps) => (pc' = "homepage" /\ idx' = idx + 1)

\* C9 as stated: when the URL-guess oracle raises for a competitor, the
\* scraper does not abort and still processes the remaining competitors; the
\* failing competitor is included with its homepage content whenever at
\* least 200 characters were extracted from its homepage, and omitted
\* otherwise.
C9_AsStated ==
    [][GuessRaisedStep =>
          /\ ScraperGoesOn
          /\ IF fallback_content >= 200
             THEN HomepageAdded(Comps[idx])
             ELSE competitor_content' = competitor_content]_vars

\* C9: when the URL-guess oracle raises for a competitor, the scraper does
\* not abort and still processes the remaining competitors; the failing
\* competitor is added with its homepage content when more than 200
\* characters were extracted from its homepage, and that step adds nothing
\* otherwise.
C9_GuessFailureFallsBack ==
    [][GuessRaisedStep =>
          /\ ScraperGoesOn
          /\ IF fallback_content > 200
             THEN HomepageAdded(Comps[idx])
             ELSE competitor_content' = competitor_content]_vars

C9_Witness ==
    /\ last_guess = "raised"
    /\ pc = "homepage"
    /\ idx = 2
    /\ fallback_content > 200
    /\ Len(competitor_content) = 1
    /\ competitor_content[1].competitor_name = Comps[1].name
    /\ competitor_content[1].urls_scraped = <<Comps[1].url>>

\* the step in which the primary pass is done with competitor idx
CompetitorDoneStep ==
    /\ pc \in {"guess", "candidate", "base"}
    /\ pc' \notin {"candidate", "base"}

\* C10: when every candidate URL attempted for a competitor yielded fewer
\* than 200 characters of body text while its homepage yielded more than
\* 200, the competitor is included with its homepage content, its
\* urls_scraped is the homepage URL alone and its pages_scraped is 1.
C10_HomepageFallback ==
    [][(CompetitorDoneStep /\ candidates_short' /\ fallback_content > 200)
          => HomepageAdded(Comps[idx])]_vars

C10_Witness ==
    /\ pc = "homepage"
    /\ idx = 2
    /\ candidates_short
    /\ Len(scrape_result.urls_tried) = 5
    /\ fallback_content > 200
    /\ Len(competitor_content) = 1
    /\ competitor_content[1].competitor_name = Comps[1].name
    /\ competitor_content[1].urls_scraped = <<Comps[1].url>>
    /\ competitor_content[1].pages_scraped = 1

\* the run is suspended inside get_competitor_content_for_capability
InScraper(at) == at \in {"homepage", "guess", "candidate", "base", "fallback"}

ScrapeFailure == "Failed to scrape any competitor content"

C12_MapperNeverFails ==
    (competitor_content # <<>> /\ ~InScraper(pc)) =>
        pc \in {"map", "done"}

\* C13: in every result returned by get_competitor_keywords no two entries
\* of article_keywords have texts that are equal ignoring case and
\* surrounding whitespace, even when the input list holds such duplicates.
C13_ArticleKeywordsUnique ==
    Returned =>
        \A i, j \in 1..Len(result.article_keywords) :
            i # j => Strip(Lower(result.article_keywords[i].keyword))
                     # Strip(Lower(result.article_keywords[j].keyword))

\* C14: when the same keyword text (ignoring case) occurs more than once
\* among the candidates for suggested_keywords, the duplicates are merged:
\* the surviving suggested entry is used by every competitor that uses a
\* competitor keyword of that text, and by no one else.
C14_SuggestedMergesUsedBy ==
    Returned =>
        \A i \in 1..Len(Suggested) :
            SeqToSet(Suggested[i].used_by) =
                UNION { SeqToSet(result.competitor_keywords[c].used_by) :
                          c \in { d \in 1..Len(result.competitor_keywords) :
                                    Lower(result.competitor_keywords[d].keyword)
                                    = Lower(Suggested[i].keyword) } }

\* C15: a malformed or failing oracle response for one (article keyword,
\* competitor) pair is absorbed inside get_competitor_keywords: once the
\* call has started to query the oracle it goes on to the next pair or
\* returns a result, it never fails.
C15_OracleFailuresAbsorbed ==
    [][pc = "map" => pc' \in {"map", "done"}]_vars

\* C16: within one run the components execute in strict sequence with at
\* most one network operation in flight: the scraper is entered only from
\* the answer of the capability oracle, the competitors of the primary pass
\* are taken one after another in configuration order, the first mapping
\* oracle call is issued only when the scraper has returned and no fetch or
\* URL-guess call follows it, and the ranking runs only when the mapping
\* call of the last (article keyword, competitor) pair has returned.
C16_StrictSequence ==
    [][/\ Cardinality(OpOf(pc')) <= 1
       /\ InScraper(pc') => (pc = "identify" \/ InScraper(pc))
       /\ (pc' = "homepage" /\ InScraper(pc)) => idx' = idx + 1
       /\ (InScraper(pc) /\ InScraper(pc') /\ pc' \notin {"homepage", "fallback"})
              => idx' = idx
       /\ (pc' = "homepage" /\ ~InScraper(pc)) => idx' = 1
       /\ pc' = "map" => (pc = "map" \/ InScraper(pc))
       /\ pc = "map" => pc' \in {"map", "done", "failed"}
       /\ pc' = "done" =>
              /\ pc = "map"
              /\ ki = Len(article_kw_list(article_keywords))
              /\ ci = Len(Prefix(competitor_content, MapCompetitorCap))]_vars

C16_Witness ==
    /\ pc = "done"
    /\ {"capability_oracle", "competitor_fetch", "url_guess_oracle",
        "mapping_oracle"} \subseteq network_ops
    /\ Len(competitor_content) >= 2
    /\ Len(keyword_mappings) >= 2

\* C17: in one call of get_competitor_keywords a mapping oracle call is
\* issued only for a pair of one of the first 5 article keywords and one of
\* the first 2 competitor contents, and each call is for a later pair than
\* the call before it: at most one call per pair, at most 10 calls.
C17_MappingCallsCapped ==
    [][/\ pc' = "map" =>
              /\ ki' \in 1..Min(5, Len(KeywordsOf(article_keywords)))
              /\ ci' \in 1..Min(2, Len(competitor_content))
       /\ (pc = "map" /\ pc' = "map") =>
              (ki' > ki \/ (ki' = ki /\ ci' > ci))]_vars

C17_Witness ==
    /\ pc = "done"
    /\ Len(KeywordsOf(article_keywords)) > 5
    /\ Len(competitor_content) > 2
    /\ Len(keyword_mappings) = 5
    /\ \A m \in 1..5 : Len(keyword_mappings[m].competitor_keywords) = 2

\* the competitor_keyword objects of the oracle that an accepted term of
\* `competitor` with text `keyword` was made from
AnswersFor(competitor, keyword) ==
    { ckw \in TermsOf(competitor) : TextOr(ckw.keyword, <<>>) = keyword }

\* C18: when an accepted mapping response lacks the volume field of the
\* requested time range, the pair's search_volume is 500, and a volume
\* field that is present is passed through unchanged.
C18_VolumeDefaulted ==
    Returned =>
        \A m \in 1..Len(result.keyword_mappings) :
            \A t \in 1..Len(result.keyword_mappings[m].competitor_keywords) :
                LET term == result.keyword_mappings[m].competitor_keywords[t]
                IN  \A ckw \in AnswersFor(term.competitor, term.keyword) :
                        term.search_volume =
                            IF ckw[volume_field_name(time_range)] = NoVolume
                            THEN 500
                            ELSE ckw[volume_field_name(time_range)]

\* C19: scrape_capability_specific_urls attempts the first min(5, n) URLs
\* of the merged list in list order and never more than 5: the attempt of
\* URL number url_i is recorded at position url_i of urls_tried (as long as
\* get_competitor_content_for_capability has not returned), and while
\* url_i is below min(5, n) the next attempt follows whatever the outcome
\* of this one, success or failure.
C19_CandidatesAllTried ==
    [][/\ (pc # "candidate" /\ pc' = "candidate") =>
              (url_i' = 1 /\ scrape_result'.urls_tried = <<>>)
       /\ pc = "candidate" =>
              /\ url_i <= Min(5, Len(unique_urls))
              /\ Len(scrape_result.urls_tried) = url_i - 1
              /\ InScraper(pc') =>
                     /\ Len(scrape_result'.urls_tried) = url_i
                     /\ scrape_result'.urls_tried[url_i].url = unique_urls[url_i]
              /\ url_i < Min(5, Len(unique_urls)) =>
                     (pc' = "candidate" /\ url_i' = url_i + 1
                      /\ unique_urls' = unique_urls)]_vars

C19_Witness ==
    /\ Len(unique_urls) > 5
    /\ Len(scrape_result.urls_tried) = 5
    /\ \E i, j \in 1..5 :
          /\ i < j
          /\ scrape_result.urls_tried[i].status = "success"
          /\ scrape_result.urls_tried[j].status # "success"
    /\ \E i, j \in 1..5 :
          /\ i < j
          /\ scrape_result.urls_tried[i].status # "success"
          /\ scrape_result.urls_tried[j].status = "success"

\* position of the first occurrence of x in s
FirstAt(s, x) == CHOOSE i \in 1..Len(s) : s[i] = x /\ \A j \in 1..(i - 1) : s[j] # x

\* `merged` is llm_urls followed by discovered with duplicates removed: it
\* holds every URL of either list exactly once, in the order of the first
\* occurrences, so that every oracle URL precedes every discovered URL the
\* oracle did not name
MergedOnce(llm_urls, discovered, merged) ==
    LET all == llm_urls \o discovered
    IN  /\ SeqToSet(merged) = SeqToSet(all)
        /\ \A i, j \in 1..Len(merged) : i # j => merged[i] # merged[j]
        /\ \A i, j \in 1..Len(merged) :
              i < j => FirstAt(all, merged[i]) < FirstAt(all, merged[j])
        /\ \A i, j \in 1..Len(merged) :
              (/\ merged[i] \in SeqToSet(llm_urls)
               /\ merged[j] \notin SeqToSet(llm_urls)) => i < j

\* C20: the candidate URL list built for a competitor is the oracle-guessed
\* URLs followed by the discovered URLs with duplicates removed by exact
\* equality: each URL of either input occurs exactly once, at the position
\* of its first occurrence, and every oracle URL precedes every discovered
\* URL the oracle did not also name.
C20_CandidateListMerged ==
    [][(pc = "guess" /\ pc' = "candidate") =>
           \E answer \in GuessAnswers(Comps[idx]) :
               /\ answer.kind = "object" /\ answer.truthy
               /\ MergedOnce(answer.probable_urls, discovered_help_urls,
                             unique_urls')]_vars

C20_Witness ==
    /\ pc = "candidate"
    /\ url_i = 1
    /\ Len(unique_urls) > 2
    /\ unique_urls[1].path = "/help"
    /\ unique_urls[2].path = GuessPath
    /\ unique_urls[1] \in SeqToSet(discovered_help_urls)

\* the homepage the last fetch of competitor idx returned, told by its body
FetchedHomepages ==
    { page \in WebPages(Comps[idx].url) :
        page.html # 0 /\ extract_content(page) = fallback_content' }

\* C21: for a fetched homepage with at most 10 same-domain anchors whose
\* href or text holds a help keyword, the list returned by
\* discover_help_urls holds the normalized URL of each such anchor.
C21_HelpAnchorsDiscovered ==
    [][(pc = "homepage" /\ pc' = "guess") =>
           \A page \in FetchedHomepages :
               LET links == HelpLinks(Comps[idx].url, page.anchors)
               IN  Len(links) <= 10 =>
                       SeqToSet(links) \subseteq SeqToSet(discovered_help_urls')]_vars

\* C22: a competitor enters competitor_content only with usable content:
\* its entry holds the body of a candidate page or of its homepage that is
\* longer than 200 characters.
C22_OnlyUsableContent ==
    \A e \in 1..Len(competitor_content) :
        \E s \in 1..Len(competitor_content[e].content) :
            competitor_content[e].content[s].body > 200

\* the URL of the fetch the scraper is suspended at
PendingFetch ==
    IF pc = "candidate" THEN unique_urls[url_i] ELSE Comps[idx].url

\* C23: during the primary pass the homepage URL of a competitor is
\* fetched once, by the resolver at the start of the competitor's
\* processing: no later fetch of the primary pass, issued while the
\* candidates are tried or after none of them succeeded, is a fetch of
\* the homepage.
C23_HomepageFetchedOnce ==
    pc \in {"candidate", "base"} => PendingFetch # Comps[idx].url

\* C24: every _fetch_page call, successful or not, increments the
\* header-rotation counter by exactly one and uses the identity at index
\* (counter mod pool size), also when two requests sharing the agent
\* interleave: the counter equals the number of calls made, call number k
\* used identity k mod 3, any 3 consecutive calls used 3 different
\* identities, and the return of a fetch leaves the counter alone.
C24_HeadersRotate ==
    /\ [](/\ request_count = Len(fetch_log)
          /\ \A k \in 1..Len(fetch_log) : fetch_log[k].header_index = k % 3
          /\ \A k \in 1..(Len(fetch_log) - 2) :
                {fetch_log[k].header_index, fetch_log[k + 1].header_index,
                 fetch_log[k + 2].header_index} = {0, 1, 2})
    /\ [][/\ fetch_log' # fetch_log => request_count' = request_count + 1
          /\ fetch_log' = fetch_log => request_count' = request_count]_vars

C24_Witness ==
    /\ Len(fetch_log) = 6
    /\ fetch_log[1].request = 1 /\ fetch_log[2].request = 2
    /\ fetch_log[3].request = 2 /\ fetch_log[4].request = 1
    /\ fetch_pc[1] = "empty" /\ fetch_pc[2] = "in_flight"

\* C25: every entry of the competitor_keywords list of a keyword_mappings
\* entry is tagged with the name of a competitor whose content was queried
\* and carries a relevance_score between 1 and 10 inclusive.
C25_RelevanceInRange ==
    Returned =>
        \A m \in 1..Len(result.keyword_mappings) :
            \A t \in 1..Len(result.keyword_mappings[m].competitor_keywords) :
                LET term == result.keyword_mappings[m].competitor_keywords[t]
                IN  /\ \E c \in 1..Min(2, Len(competitor_content)) :
                          competitor_content[c].competitor_name = term.competitor
                    /\ term.relevance_score \in 1..10

\* the candidates of the ranking, rebuilt from the returned lists
ResultPool ==
    all_keywords_for_suggestion(result.article_keywords, result.competitor_keywords)

\* position of the first candidate equal to the suggested entry e
PoolAt(e) ==
    CHOOSE k \in 1..Len(ResultPool) :
        /\ ResultPool[k] = [keyword |-> e.keyword, search_volume |-> e.search_volume,
                            used_by |-> e.used_by]
        /\ \A h \in 1..(k - 1) :
              ResultPool[h] # [keyword |-> e.keyword,
                               search_volume |-> e.search_volume,
                               used_by |-> e.used_by]

\* C26: the ranking sort is stable: suggested entries of equal
\* search_volume stand in pool order (article keywords before competitor
\* keywords, each group in its own order), and of the candidates with one
\* text, ignoring case, the entry kept is the first in the sorted order:
\* the one of highest volume and, among those, the earliest of the pool.
C26_RankingStable ==
    Returned =>
        /\ \A i, j \in 1..Len(Suggested) :
              (i < j /\ OrNum(Suggested[i].search_volume, 0)
                        = OrNum(Suggested[j].search_volume, 0))
                  => PoolAt(Suggested[i]) < PoolAt(Suggested[j])
        /\ \A i \in 1..Len(Suggested) :
              \A k \in 1..Len(ResultPool) :
                  Lower(TextOr(ResultPool[k].keyword, <<>>))
                      = Lower(TextOr(Suggested[i].keyword, <<>>))
                  => \/ OrNum(ResultPool[k].search_volume, 0)
                            < OrNum(Suggested[i].search_volume, 0)
                     \/ /\ OrNum(ResultPool[k].search_volume, 0)
                               = OrNum(Suggested[i].search_volume, 0)
                        /\ PoolAt(Suggested[i]) <= k

C26_Witness ==
    /\ Returned
    /\ \E i, j \in 1..Len(Suggested) :
          /\ i < j
          /\ Suggested[i].search_volume = Suggested[j].search_volume
          /\ Suggested[i].used_by = <<>>
          /\ Suggested[j].used_by # <<>>
    /\ \E k, h \in 1..Len(ResultPool) :
          /\ k < h
          /\ ResultPool[k].search_volume = ResultPool[h].search_volume
          /\ Lower(ResultPool[k].keyword) = Lower(ResultPool[h].keyword)

Terminated == pc \in {"done", "failed"}

\* the suspension points of a run in the order the run can pass them: per
\* competitor of the primary pass one homepage fetch, one URL-guess call,
\* 5 candidate fetches and one base-URL fetch, then one fetch per
\* competitor of the fallback pass, then 10 mapping calls
SuspensionRank ==
    LET n == Len(Comps)
    IN  CASE pc = "call"      -> 0
          [] pc = "article"   -> 1
          [] pc = "extract"   -> 2
          [] pc = "identify"  -> 3
          [] pc = "homepage"  -> 4 + 8 * (idx - 1)
          [] pc = "guess"     -> 4 + 8 * (idx - 1) + 1
          [] pc = "candidate" -> 4 + 8 * (idx - 1) + 1 + url_i
          [] pc = "base"      -> 4 + 8 * (idx - 1) + 7
          [] pc = "fallback"  -> 4 + 8 * n + (idx - 1)
          [] pc = "map"       -> 4 + 9 * n + 2 * (ki - 1) + (ci - 1)
          [] OTHER            -> 4 + 9 * n + 10

\* C27: when every page fetch and every oracle call eventually returns,
\* every run of analyze_competitor_keywords eventually reaches done or
\* failed, after a bounded number of suspension points: every step leads
\* to a later suspension point of the list (per competitor one homepage
\* fetch, one URL-guess call, 5 candidate fetches, one base-URL fetch; one
\* fetch per competitor in the fallback pass; 10 mapping calls).
C27_RunTerminates ==
    /\ <>Terminated
    /\ [][SuspensionRank' > SuspensionRank]_vars
    /\ [](pc = "candidate" => url_i \in 1..5)
    /\ [](pc = "map" => (ki \in 1..5 /\ ci \in 1..2))

C27_Witness ==
    /\ entry = "analyze_competitor_keywords"
    /\ pc = "done"
    /\ {"competitor_fetch", "url_guess_oracle", "mapping_oracle"} \subseteq network_ops
    /\ Len(keyword_mappings) >= 2

\* position of the competitor called `name` in the configuration
ConfiguredAt(name) == CHOOSE i \in 1..Len(Comps) : Comps[i].name = name

\* C28: competitor_content holds at most one entry per configured
\* competitor and its entries stand in configuration order; a successful
\* result of get_competitor_content_for_capability holds at least 1 and at
\* most as many entries as competitors are configured; and the fallback
\* pass adds an entry only for a competitor that has none.
C28_OneEntryPerCompetitor ==
    /\ [](/\ \A e \in 1..Len(competitor_content) :
                \E i \in 1..Len(Comps) :
                    Comps[i].name = competitor_content[e].competitor_name
          /\ \A e, f \in 1..Len(competitor_content) :
                e < f => ConfiguredAt(competitor_content[e].competitor_name)
                         < ConfiguredAt(competitor_content[f].competitor_name)
          /\ pc \in {"map", "done"} =>
                Len(competitor_content) \in 1..Len(Comps))
    /\ [][(pc = "fallback" /\ competitor_content' # competitor_content) =>
              /\ Len(competitor_content') = Len(competitor_content) + 1
              /\ competitor_content'[Len(competitor_content')].competitor_name
                     = Comps[idx].name
              /\ \A e \in 1..Len(competitor_content) :
                    competitor_content[e].competitor_name # Comps[idx].name]_vars

C28_Witness ==
    /\ pc = "map"
    /\ Len(competitor_content) = 2
    /\ competitor_content[1].pages_scraped = 2
    /\ competitor_content[2].urls_scraped = <<Comps[2].url>>

\* C29: in every result of get_competitor_keywords the article keyword of
\* every keyword_mappings entry is also the keyword of an entry of the
\* returned article_keywords list.
C29_MappedAreClean ==
    Returned =>
        \A m \in 1..Len(result.keyword_mappings) :
            \E a \in 1..Len(result.article_keywords) :
                result.article_keywords[a].keyword
                    = result.keyword_mappings[m].article_keyword.keyword

(***************************************************************************)
(* Properties of rewrite_content_for_seo.                                  *)
(***************************************************************************)
Segments(content) ==
    {k \in 1..Len(content) : content[k] # Separator}

\* the chunk at hand got a segment in this step
SegmentAdded ==
    /\ Len(rewritten_chunks') = Len(rewritten_chunks) + 1
    /\ SubSeq(rewritten_chunks', 1, Len(rewritten_chunks)) = rewritten_chunks

NewSegment == rewritten_chunks'[Len(rewritten_chunks')]

\* C30: every chunk is given at most 2 rewrite attempts and contributes
\* exactly one segment to the output, in chunk order: the text of the first
\* attempt when it is longer than 50 characters, else the text of the second
\* attempt, else the original chunk wrapped in a paragraph; the returned
\* total_chunks is the number of segments and chunks_processed never
\* exceeds it.
C30_OneSegmentPerChunk ==
    /\ [](pc \in {"rewrite", "sleep"} =>
            /\ attempt \in 0..(max_retries - 1)
            /\ chunk_i \in 1..Len(chunks)
            /\ Len(rewritten_chunks) = chunk_i - 1
            /\ successful <= Len(rewritten_chunks)
            /\ pc = "sleep" => attempt = 0)
    /\ [](\A k \in 1..Len(rewritten_chunks) :
            /\ rewritten_chunks[k].chunk = k
            /\ \/ /\ rewritten_chunks[k].source = "rewritten"
                  /\ rewritten_chunks[k].length > MinRewritten
               \/ rewritten_chunks[k] = Original(k, chunks[k]))
    /\ [](pc = "done" /\ entry = "rewrite_content_for_seo" =>
            /\ Len(rewritten_chunks) = Len(chunks)
            /\ result.total_chunks = Len(chunks)
            /\ Cardinality(Segments(result.rewritten_content))
                   = result.total_chunks
            /\ result.chunks_processed <= result.total_chunks
            /\ result.chunks_processed =
                   Cardinality({k \in 1..Len(rewritten_chunks) :
                                   rewritten_chunks[k].source = "rewritten"}))
    /\ [][pc = "rewrite" =>
            \/ /\ SegmentAdded
               /\ NewSegment.source = "rewritten"
               /\ NewSegment.attempt = attempt
               /\ successful' = successful + 1
               /\ chunk_i' = chunk_i + 1
            \/ /\ SegmentAdded
               /\ NewSegment = Original(chunk_i, chunks[chunk_i])
               /\ attempt = max_retries - 1
               /\ successful' = successful
               /\ chunk_i' = chunk_i + 1
            \/ /\ rewritten_chunks' = rewritten_chunks
               /\ attempt = 0
               /\ successful' = successful
               /\ chunk_i' = chunk_i
               /\ \/ pc' = "sleep" /\ attempt' = attempt
                  \/ pc' = "rewrite" /\ attempt' = 1]_vars
    /\ [][pc = "sleep" =>
            /\ pc' = "rewrite"
            /\ attempt' = attempt + 1
            /\ chunk_i' = chunk_i
            /\ rewritten_chunks' = rewritten_chunks]_vars

\* three chunks: the first rewritten at once, the second at the second
\* attempt, the third kept as it was
C30_Witness ==
    /\ entry = "rewrite_content_for_seo"
    /\ pc = "done"
    /\ Len(chunks) = 3
    /\ result.total_chunks = 3
    /\ result.chunks_processed = 2
    /\ rewritten_chunks[1] = Rewritten(1, 0, MinRewritten + 1)
    /\ rewritten_chunks[2] = Rewritten(2, 1, MinRewritten + 1)
    /\ rewritten_chunks[3] = Original(3, chunks[3])

====
